---- MODULE Spec2Model ----
(***************************************************************************)
(* Model of src/app.py: the retry wrapper (retry_with_backoff), the cached *)
(* fetcher (fetch_showtimes), the aggregation (process_showtime_data), the *)
(* orchestrator (fetch_all_showtimes) and the branch main() takes on its   *)
(* result.                                                                 *)
(***************************************************************************)
EXTENDS Integers, Sequences, FiniteSets, TLC

VARIABLES
    \* ---- process_showtime_data, stepped through its loops
    ppc,        \* position: "showtimes", "categories", "returned", "raised"
    acc,        \* the grand_* accumulators and the three show counters
    show,       \* the per-showtime locals total_max_seats .. booked_gross
    nshows,     \* showtimes entered so far
    ncats,      \* categories consumed so far, over all showtimes
    summary,    \* the returned dict, once returned
    \* ---- retry_with_backoff's wrapper around an arbitrary operation
    wpc,        \* position: "invoke", "sleeping", "returned", "raised"
    x,          \* the wrapper's retry counter
    calls,      \* the outcomes of func's invocations so far, in order
    delays,     \* the arguments of time.sleep so far (whole seconds), in order
    wresult,    \* what the wrapper returned or raised, once it has
    \* ---- main(), fetch_all_showtimes() and the cached fetch_showtimes()
    pc,         \* position: "idle", "loop", "returned", "crashed"
    now,        \* the clock, in seconds
    cache,      \* st.cache_data's entries for fetch_showtimes, by city
    i,          \* position of the `for` loop in CITIES
    results,    \* the list `results`
    data,       \* what the last fetch_showtimes call returned
    answers,    \* what the upstream did on each HTTP request of that call
    sleeps,     \* time.sleep calls made during that call
    reported,   \* the conditions that call reported with st.error
    got,        \* this cycle: what fetch_showtimes returned, by city
    limited,    \* this cycle: the cities the upstream answered with HTTP 429
    lastExec,   \* when the body of fetch_showtimes last ran, by city (-1: never)
    view        \* what main() showed: "none", "failed", "rendered"

procVars == <<ppc, acc, show, nshows, ncats, summary>>
retryVars == <<wpc, x, calls, delays, wresult>>

mainVars ==
    <<pc, now, cache, i, results, data, answers, sleeps, reported, got, limited,
      lastExec, view>>

vars == <<procVars, retryVars, mainVars>>

otherThanProc == <<retryVars, mainVars>>
otherThanRetry == <<procVars, mainVars>>
otherThanMain == <<procVars, retryVars>>

-----------------------------------------------------------------------------
(* Bounds of the exploration *)

MaxShows == 2
MaxCats == 3
MaxTicks == 3

\* the clock advances a quarter of an hour at a time
TickSeconds == 15 * 60

-----------------------------------------------------------------------------
(* JSON field values.  A field of a category dict is absent, JSON null, a  *)
(* number, a numeric string or a string that is no number.                 *)

Absent == <<"absent", 0>>
Null == <<"null", 0>>
BadStr == <<"badstr", 0>>
Num(n) == <<"num", n>>
NumStr(n) == <<"numstr", n>>

\* dict.get(key, 0): the default replaces an absent key only; a key that is
\* present with value null yields None.
Get(v) == IF v = Absent THEN Num(0) ELSE v

\* int(v) / float(v) on what Get returned: None raises TypeError, a string
\* that is no number raises ValueError.  <<TRUE, n>> is the value n,
\* <<FALSE, 0>> is a raised exception.
Coerce(v) ==
    IF v[1] \in {"num", "numstr"} THEN <<TRUE, v[2]>> ELSE <<FALSE, 0>>

\* `x or 0`
OrZero(n) == IF n = 0 THEN 0 ELSE n

-----------------------------------------------------------------------------
(* f"{x:.2f}%" and float(s.strip("%")).  A string is a sequence of         *)
(* one-character strings; a parsed float with two decimals is held in      *)
(* hundredths.                                                             *)

Digits == <<"0", "1", "2", "3", "4", "5", "6", "7", "8", "9">>

RECURSIVE NatToStr(_)
NatToStr(n) ==
    IF n < 10 THEN <<Digits[n + 1]>>
    ELSE NatToStr(n \div 10) \o <<Digits[(n % 10) + 1]>>

Abs(n) == IF n < 0 THEN -n ELSE n

\* num / den * 100 rounded to two decimals as the "f" format rounds (to
\* nearest, ties to even), in hundredths, den > 0.  Magnitude only.
RoundHundredths(num, den) ==
    LET a == Abs(num) * 10000
        q == a \div den
        r == a % den
    IN  IF 2 * r > den THEN q + 1
        ELSE IF 2 * r < den THEN q
        ELSE IF q % 2 = 0 THEN q ELSE q + 1

\* f"{(num / den * 100):.2f}%" for den > 0
FormatPercent(num, den) ==
    LET h == RoundHundredths(num, den)
    IN  (IF num < 0 THEN <<"-">> ELSE <<>>)
        \o NatToStr(h \div 100) \o <<".">>
        \o <<Digits[((h % 100) \div 10) + 1], Digits[(h % 10) + 1]>>
        \o <<"%">>

\* f"{0:.2f}%"
ZeroPercent == <<"0", ".", "0", "0", "%">>

RECURSIVE StripLeft(_, _)
StripLeft(s, ch) ==
    IF s # <<>> /\ Head(s) = ch THEN StripLeft(Tail(s), ch) ELSE s

RECURSIVE StripRight(_, _)
StripRight(s, ch) ==
    IF s # <<>> /\ s[Len(s)] = ch THEN StripRight(SubSeq(s, 1, Len(s) - 1), ch)
    ELSE s

\* str.strip("%")
Strip(s, ch) == StripRight(StripLeft(s, ch), ch)

DigitVal(c) == CHOOSE d \in 0..9 : Digits[d + 1] = c

RECURSIVE DigitsToNat(_, _)
DigitsToNat(s, n) ==
    IF s = <<>> THEN n
    ELSE IF Head(s) = "." THEN DigitsToNat(Tail(s), n)
    ELSE DigitsToNat(Tail(s), 10 * n + DigitVal(Head(s)))

\* float(s) for s of the shape [-]d+.dd, in hundredths
ParseFloat(s) ==
    IF s # <<>> /\ Head(s) = "-" THEN -DigitsToNat(Tail(s), 0)
    ELSE DigitsToNat(s, 0)

\* the sort key: float(x["Occupancy"].strip("%"))
OccupancyKey(row) == ParseFloat(Strip(row.Occupancy, "%"))

-----------------------------------------------------------------------------
(* process_showtime_data *)

fast_filling_threshold == 70

AccInit ==
    [grand_total_max_seats |-> 0, grand_total_seats_available |-> 0,
     grand_total_booked_tickets |-> 0, grand_total_gross |-> 0,
     grand_booked_gross |-> 0, total_show_count |-> 0,
     fast_filling_show_count |-> 0, sold_out_show_count |-> 0]

ShowInit ==
    [total_max_seats |-> 0, total_seats_available |-> 0,
     total_booked_tickets |-> 0, total_gross |-> 0, booked_gross |-> 0]

\* Does the body of the category loop raise on this category?
CategoryRaises(category) ==
    \/ ~Coerce(Get(category.MaxSeats))[1]
    \/ ~Coerce(Get(category.SeatsAvail))[1]
    \/ ~Coerce(Get(category.CurPrice))[1]

\* The body of the category loop, on a category that does not raise.
CategoryStep(s, category) ==
    LET max_seats == OrZero(Coerce(Get(category.MaxSeats))[2])
        seats_avail == OrZero(Coerce(Get(category.SeatsAvail))[2])
        booked_tickets == max_seats - seats_avail
        current_price == OrZero(Coerce(Get(category.CurPrice))[2])
    IN  [total_max_seats |-> s.total_max_seats + max_seats,
         total_seats_available |-> s.total_seats_available + seats_avail,
         total_booked_tickets |-> s.total_booked_tickets + booked_tickets,
         total_gross |-> s.total_gross + max_seats * current_price,
         booked_gross |-> s.booked_gross + booked_tickets * current_price]

\* IsFastFilling with the upper comparison written <= 100
IsFastFillingInclusive(s) ==
    /\ s.total_max_seats > 0
    /\ 70 * s.total_max_seats <= 100 * s.total_booked_tickets
    /\ s.total_booked_tickets <= s.total_max_seats

\* fast_filling_threshold <= show_occupancy < 100, with show_occupancy =
\* total_booked_tickets / total_max_seats * 100 if total_max_seats > 0 else 0
IsFastFilling(s) ==
    /\ s.total_max_seats > 0
    /\ fast_filling_threshold * s.total_max_seats <= 100 * s.total_booked_tickets
    /\ s.total_booked_tickets < s.total_max_seats

\* show_occupancy >= 99.5
IsSoldOut(s) ==
    /\ s.total_max_seats > 0
    /\ 200 * s.total_booked_tickets >= 199 * s.total_max_seats

\* The showtime loop's first statement: total_show_count += 1
CountShow(a) == [a EXCEPT !.total_show_count = @ + 1]

\* The tail of the showtime loop: classification and grand accumulation.
CloseShow(a, s) ==
    [a EXCEPT
        !.fast_filling_show_count = IF IsFastFilling(s) THEN @ + 1 ELSE @,
        !.sold_out_show_count = IF IsSoldOut(s) THEN @ + 1 ELSE @,
        !.grand_total_max_seats = @ + s.total_max_seats,
        !.grand_total_seats_available = @ + s.total_seats_available,
        !.grand_total_booked_tickets = @ + s.total_booked_tickets,
        !.grand_total_gross = @ + s.total_gross,
        !.grand_booked_gross = @ + s.booked_gross]

\* grand_occupancy and the returned dict
MakeSummary(area_name, a) ==
    [AreaName |-> area_name,
     ShowCount |-> a.total_show_count,
     FastFillingShows |-> a.fast_filling_show_count,
     SoldOutShows |-> a.sold_out_show_count,
     Occupancy |-> IF a.grand_total_max_seats > 0
                   THEN FormatPercent(a.grand_total_booked_tickets,
                                      a.grand_total_max_seats)
                   ELSE ZeroPercent,
     BookedGross |-> a.grand_booked_gross,
     MaxCapacityGross |-> a.grand_total_gross,
     BookedTicketsCount |-> a.grand_total_booked_tickets,
     TotalTicketsCount |-> a.grand_total_max_seats]

NoSummary == MakeSummary("", AccInit)

\* Result of a fold that may raise: [ok |-> FALSE] carries the state at the raise.
RECURSIVE FoldCategories(_, _)
FoldCategories(s, categories) ==
    IF categories = <<>> THEN [ok |-> TRUE, s |-> s]
    ELSE IF CategoryRaises(Head(categories)) THEN [ok |-> FALSE, s |-> s]
    ELSE FoldCategories(CategoryStep(s, Head(categories)), Tail(categories))

\* One iteration of `for show_time in venue["ShowTimes"]`
ShowTimeStep(a, show_time) ==
    LET f == FoldCategories(ShowInit, show_time.Categories)
    IN  IF f.ok THEN [ok |-> TRUE, a |-> CloseShow(CountShow(a), f.s)]
        ELSE [ok |-> FALSE, a |-> CountShow(a)]

RECURSIVE FoldShowTimes(_, _)
FoldShowTimes(a, show_times) ==
    IF show_times = <<>> THEN [ok |-> TRUE, a |-> a]
    ELSE LET r == ShowTimeStep(a, Head(show_times))
         IN  IF r.ok THEN FoldShowTimes(r.a, Tail(show_times)) ELSE r

RECURSIVE FoldVenues(_, _)
FoldVenues(a, venues) ==
    IF venues = <<>> THEN [ok |-> TRUE, a |-> a]
    ELSE LET r == FoldShowTimes(a, Head(venues).ShowTimes)
         IN  IF r.ok THEN FoldVenues(r.a, Tail(venues)) ELSE r

RECURSIVE FoldShowDetails(_, _)
FoldShowDetails(a, show_details) ==
    IF show_details = <<>> THEN [ok |-> TRUE, a |-> a]
    ELSE LET r == FoldVenues(a, Head(show_details).Venues)
         IN  IF r.ok THEN FoldShowDetails(r.a, Tail(show_details)) ELSE r

\* A payload is a dict: hasKeys says it is non-empty (truthy), ShowDetails is
\* the list under that key (<<>> when the key is absent or the list empty;
\* the same holds for Venues, ShowTimes and Categories below it, which the
\* code guards with .get() alike).
Truthy(payload) == payload.hasKeys

\* process_showtime_data(area_name, data): [ok |-> TRUE, row |-> the dict],
\* or [ok |-> FALSE] when a coercion raises.
process_showtime_data(area_name, payload) ==
    LET r == IF Truthy(payload) /\ payload.ShowDetails # <<>>
             THEN FoldShowDetails(AccInit, payload.ShowDetails)
             ELSE [ok |-> TRUE, a |-> AccInit]
    IN  [ok |-> r.ok, row |-> MakeSummary(area_name, r.a)]

-----------------------------------------------------------------------------
(* The categories the stepped aggregation draws from *)

MaxSeatsVals == {Absent, Null, NumStr(10), Num(200)}
SeatsAvailVals == {Absent, BadStr, Num(1), NumStr(3)}
CurPriceVals == {Absent, Null, NumStr(100)}

Categories ==
    [MaxSeats : MaxSeatsVals, SeatsAvail : SeatsAvailVals, CurPrice : CurPriceVals]

-----------------------------------------------------------------------------
(* process_showtime_data stepped through its loops *)

ProcInit ==
    /\ ppc = "showtimes"
    /\ acc = AccInit
    /\ show = ShowInit
    /\ nshows = 0
    /\ ncats = 0
    /\ summary = NoSummary

\* `for show_time in ...`: total_show_count += 1 and the locals reset
BeginShowTime ==
    /\ ppc = "showtimes"
    /\ nshows < MaxShows
    /\ acc' = CountShow(acc)
    /\ show' = ShowInit
    /\ nshows' = nshows + 1
    /\ ppc' = "categories"
    /\ UNCHANGED <<ncats, summary>>
    /\ UNCHANGED otherThanProc

\* `for category in show_time["Categories"]`: one category
ProcessCategory ==
    /\ ppc = "categories"
    /\ ncats < MaxCats
    /\ \E category \in Categories :
          IF CategoryRaises(category)
          THEN /\ ppc' = "raised"
               /\ UNCHANGED <<show, ncats>>
          ELSE /\ show' = CategoryStep(show, category)
               /\ ncats' = ncats + 1
               /\ ppc' = ppc
    /\ UNCHANGED <<acc, nshows, summary>>
    /\ UNCHANGED otherThanProc

\* the categories are exhausted: classify the showtime, add it to the grand totals
EndShowTime ==
    /\ ppc = "categories"
    /\ acc' = CloseShow(acc, show)
    /\ ppc' = "showtimes"
    /\ UNCHANGED <<show, nshows, ncats, summary>>
    /\ UNCHANGED otherThanProc

\* the loops are exhausted: return the dict
ReturnSummary ==
    /\ ppc = "showtimes"
    /\ summary' = MakeSummary("Hyderabad", acc)
    /\ ppc' = "returned"
    /\ UNCHANGED <<acc, show, nshows, ncats>>
    /\ UNCHANGED otherThanProc

ProcNext == BeginShowTime \/ ProcessCategory \/ EndShowTime \/ ReturnSummary

-----------------------------------------------------------------------------
(* retry_with_backoff *)

retries == 3
backoff_in_seconds == 1

\* What func does on one invocation: returns val, raises a
\* requests.exceptions.RequestException (val names the exception object), or
\* raises an exception of another class.
Returned(v) == [kind |-> "return", val |-> v]
RequestException(e) == [kind |-> "RequestException", val |-> e]
OtherException(e) == [kind |-> "Exception", val |-> e]

\* WrapperOn with the exhaustion test written x > retries
WrapperOnOneMore(xx, out) ==
    IF out.kind = "return" THEN "return"
    ELSE IF out.kind = "RequestException"
         THEN IF xx > 3 THEN "raise" ELSE "sleep"
         ELSE "raise"

\* One pass of the wrapper's try/except on func's outcome, with counter xx:
\* "return" it, re-"raise" it, or "sleep" and go around the loop.
WrapperOn(xx, out) ==
    IF out.kind = "return" THEN "return"
    ELSE IF out.kind = "RequestException"
         THEN IF xx = retries THEN "raise" ELSE "sleep"
         ELSE "raise"

RECURSIVE Pow2(_)
Pow2(n) == IF n = 0 THEN 1 ELSE 2 * Pow2(n - 1)

\* backoff_in_seconds * 2 ** x + random.uniform(0, 1), the jitter taken at
\* either end of its range
SleepSeconds(xx, jitter) == backoff_in_seconds * Pow2(xx) + jitter

\* The whole wrapper call, outs[n] being the outcome of func's n-th invocation.
RECURSIVE RunWrapper(_, _, _)
RunWrapper(outs, n, xx) ==
    LET how == WrapperOn(xx, outs[n])
    IN  IF how = "sleep" THEN RunWrapper(outs, n + 1, xx + 1)
        ELSE [how |-> how, out |-> outs[n], invocations |-> n, sleeps |-> xx]

OpOutcomes ==
    {Returned(v) : v \in 1..2} \cup {RequestException(e) : e \in 1..2}
        \cup {OtherException(1)}

NoOutcome == Returned(0)

RetryInit ==
    /\ wpc = "invoke"
    /\ x = 0
    /\ calls = <<>>
    /\ delays = <<>>
    /\ wresult = NoOutcome

\* `return func(*args, **kwargs)` and the except clause up to `raise e`
WrapperInvoke ==
    /\ wpc = "invoke"
    /\ \E out \in OpOutcomes :
          /\ calls' = Append(calls, out)
          /\ LET how == WrapperOn(x, out)
             IN  /\ wpc' = CASE how = "return" -> "returned"
                             [] how = "raise" -> "raised"
                             [] OTHER -> "sleeping"
                 /\ wresult' = IF how = "sleep" THEN wresult ELSE out
    /\ UNCHANGED <<x, delays>>
    /\ UNCHANGED otherThanRetry

\* `time.sleep(sleep); x += 1`
WrapperSleep ==
    /\ wpc = "sleeping"
    /\ \E jitter \in {0, 1} : delays' = Append(delays, SleepSeconds(x, jitter))
    /\ x' = x + 1
    /\ wpc' = "invoke"
    /\ UNCHANGED <<calls, wresult>>
    /\ UNCHANGED otherThanRetry

RetryNext == WrapperInvoke \/ WrapperSleep

-----------------------------------------------------------------------------
(* The configured cities and the payloads the upstream may answer with *)

CITIES == <<"Hyderabad", "Bangalore", "Chennai">>
CityNames == {CITIES[n] : n \in 1..Len(CITIES)}

Cat(m, a, p) == [MaxSeats |-> m, SeatsAvail |-> a, CurPrice |-> p]
ShowTime(cats) == [Categories |-> cats]
Venue(sts) == [ShowTimes |-> sts]
ShowDetail(vs) == [Venues |-> vs]
Payload(sds) == [hasKeys |-> TRUE, ShowDetails |-> sds]

\* {}
EmptyDict == [hasKeys |-> FALSE, ShowDetails |-> <<>>]

\* 45.00%: 9 of 20 seats booked; a venue without ShowTimes beside it
P45 ==
    Payload(<<ShowDetail(<<Venue(<<>>),
                           Venue(<<ShowTime(<<Cat(NumStr(20), NumStr(11), NumStr(100))>>)>>)>>)>>)

\* 80.00%: one fast-filling show of 10 seats
P80 ==
    Payload(<<ShowDetail(<<Venue(<<ShowTime(<<Cat(Num(10), Num(2), Num(150))>>)>>)>>)>>)

\* 99.80%: one show of 500 seats, 1 left, and a showtime without categories
P998 ==
    Payload(<<ShowDetail(<<Venue(<<ShowTime(<<Cat(NumStr(500), NumStr(1), Absent)>>),
                                   ShowTime(<<>>)>>)>>)>>)

\* a category whose MaxSeats is null
PNull ==
    Payload(<<ShowDetail(<<Venue(<<ShowTime(<<Cat(Null, NumStr(1), NumStr(100))>>)>>)>>)>>)

Payloads == {EmptyDict, P45, P80, P998, PNull}

\* What the upstream does on one HTTP request.
Ok(body) == [kind |-> "ok", status |-> 200, body |-> body]
HttpError(status) == [kind |-> "HTTPError", status |-> status, body |-> EmptyDict]
ConnectionError == [kind |-> "ConnectionError", status |-> 0, body |-> EmptyDict]
Timeout == [kind |-> "Timeout", status |-> 0, body |-> EmptyDict]

HttpOutcomes ==
    {Ok(b) : b \in Payloads} \cup {HttpError(429), HttpError(500), ConnectionError, Timeout}

\* What the upstream does on the requests after the first of one call: it
\* answers, or the transport fails again.
LaterOutcomes == {Ok(P80), ConnectionError}

\* None and a returned payload
None == <<>>
Some(d) == <<d>>

-----------------------------------------------------------------------------
(* fetch_showtimes: the body, under the retry wrapper, under the cache *)

ttl == 1800

\* The body's try/except on one HTTP request: what it returns or raises, and
\* what it reports.  raise_for_status raises HTTPError on an error status;
\* ConnectionError and Timeout are raised by requests.get; every one of them
\* is caught by the body's own except clauses.
FetchBody(http) ==
    IF http.kind = "ok" THEN [out |-> Returned(Some(http.body)), msgs |-> {}]
    ELSE IF http.kind = "HTTPError"
         THEN IF http.status = 429
              THEN [out |-> Returned(None), msgs |-> {"rate_limit"}]
              ELSE [out |-> Returned(None), msgs |-> {"fetch_failed"}]
         ELSE [out |-> Returned(None), msgs |-> {"unexpected_error"}]

\* CacheFresh of a function that is not cached at all
CacheFreshNever(entry, t) == FALSE

\* An entry of the cache is usable until ttl seconds after it was stored.
CacheFresh(entry, t) == t - entry.stored < ttl

\* The cached function's lookup for a city at time t.
CacheHit(c, t) == cache[c] # <<>> /\ CacheFresh(cache[c][1], t)

-----------------------------------------------------------------------------
(* fetch_all_showtimes: sort and totals *)

\* where a row goes in a list sorted by descending key: behind every row whose
\* key is not smaller (the sort is stable)
RECURSIVE InsertDesc(_, _)
InsertDesc(sorted, row) ==
    IF sorted = <<>> THEN <<row>>
    ELSE IF OccupancyKey(Head(sorted)) >= OccupancyKey(row)
         THEN <<Head(sorted)>> \o InsertDesc(Tail(sorted), row)
         ELSE <<row>> \o sorted

RECURSIVE SortFrom(_, _)
SortFrom(sorted, rest) ==
    IF rest = <<>> THEN sorted
    ELSE SortFrom(InsertDesc(sorted, Head(rest)), Tail(rest))

\* SortByOccupancy with the sort left out
SortByOccupancySkipped(rows) == rows

\* results.sort(key=lambda x: float(x["Occupancy"].strip("%")), reverse=True)
SortByOccupancy(rows) == SortFrom(<<>>, rows)

RECURSIVE SumOf(_, _)
SumOf(rows, field) ==
    IF rows = <<>> THEN 0 ELSE Head(rows)[field] + SumOf(Tail(rows), field)

\* TotalOccupancy as the mean of the rows' percentages
TotalOccupancyMean(rows) ==
    IF rows = <<>> THEN ZeroPercent
    ELSE FormatPercent(SumOf([n \in 1..Len(rows) |->
                                 [key |-> OccupancyKey(rows[n])]], "key"),
                       10000 * Len(rows))

\* the "Occupancy" entry of totals
TotalOccupancy(rows) ==
    IF SumOf(rows, "TotalTicketsCount") > 0
    THEN FormatPercent(SumOf(rows, "BookedTicketsCount"), SumOf(rows, "TotalTicketsCount"))
    ELSE ZeroPercent

Totals(rows) ==
    [AreaName |-> "OVERALL_TOTAL",
     ShowCount |-> SumOf(rows, "ShowCount"),
     FastFillingShows |-> SumOf(rows, "FastFillingShows"),
     SoldOutShows |-> SumOf(rows, "SoldOutShows"),
     BookedGross |-> SumOf(rows, "BookedGross"),
     MaxCapacityGross |-> SumOf(rows, "MaxCapacityGross"),
     BookedTicketsCount |-> SumOf(rows, "BookedTicketsCount"),
     TotalTicketsCount |-> SumOf(rows, "TotalTicketsCount"),
     Occupancy |-> TotalOccupancy(rows)]

-----------------------------------------------------------------------------
(* main() and fetch_all_showtimes(), one step per city *)

NoneYet == [c \in CityNames |-> None]

MainInit ==
    /\ pc = "idle"
    /\ now = 0
    /\ cache = [c \in CityNames |-> <<>>]
    /\ i = 1
    /\ results = <<>>
    /\ data = None
    /\ answers = <<>>
    /\ sleeps = 0
    /\ reported = {}
    /\ got = NoneYet
    /\ limited = {}
    /\ lastExec = [c \in CityNames |-> -1]
    /\ view = "none"

\* A script run begins: main() calls fetch_all_showtimes(), results = []
StartCycle ==
    /\ pc = "idle"
    /\ pc' = "loop"
    /\ i' = 1
    /\ results' = <<>>
    /\ data' = None
    /\ answers' = <<>>
    /\ sleeps' = 0
    /\ reported' = {}
    /\ got' = NoneYet
    /\ limited' = {}
    /\ view' = "none"
    /\ UNCHANGED <<now, cache, lastExec>>
    /\ UNCHANGED otherThanMain

\* `if data: results.append(process_showtime_data(city_name, data))`
Collect(c, d) ==
    IF d # None /\ Truthy(d[1])
    THEN LET r == process_showtime_data(c, d[1])
         IN  IF r.ok
             THEN /\ results' = Append(results, r.row)
                  /\ pc' = "loop"
             ELSE /\ results' = results
                  /\ pc' = "crashed"
    ELSE /\ results' = results
         /\ pc' = "loop"

\* One iteration of `for city_name, city_config in CITIES.items()`, the call
\* of fetch_showtimes included: a cache hit returns the stored value; a miss
\* runs the wrapped body (first is what the upstream does on the first HTTP
\* request, later on every further one) and stores what it returned.
FetchCity ==
    /\ pc = "loop"
    /\ i <= Len(CITIES)
    /\ LET c == CITIES[i]
       IN  IF CacheHit(c, now)
           THEN /\ data' = cache[c][1].value
                /\ answers' = <<>>
                /\ sleeps' = 0
                /\ reported' = {}
                /\ got' = [got EXCEPT ![c] = cache[c][1].value]
                /\ Collect(c, cache[c][1].value)
                /\ UNCHANGED <<cache, limited, lastExec>>
           ELSE \E first \in HttpOutcomes, later \in LaterOutcomes :
                LET http == [n \in 1..(retries + 1) |-> IF n = 1 THEN first ELSE later]
                    outs == [n \in 1..(retries + 1) |-> FetchBody(http[n]).out]
                    run == RunWrapper(outs, 1, 0)
                    made == SubSeq(http, 1, run.invocations)
                IN  /\ answers' = made
                    /\ sleeps' = run.sleeps
                    /\ reported' = UNION {FetchBody(made[n]).msgs : n \in 1..Len(made)}
                    /\ lastExec' = [lastExec EXCEPT ![c] = now]
                    /\ limited' = IF \E n \in 1..Len(made) :
                                       made[n].kind = "HTTPError" /\ made[n].status = 429
                                  THEN limited \cup {c} ELSE limited
                    /\ IF run.how = "return"
                       THEN /\ data' = run.out.val
                            /\ cache' = [cache EXCEPT ![c] =
                                            <<[value |-> run.out.val, stored |-> now]>>]
                            /\ got' = [got EXCEPT ![c] = run.out.val]
                            /\ Collect(c, run.out.val)
                       ELSE /\ pc' = "crashed"
                            /\ UNCHANGED <<data, cache, got, results>>
    /\ i' = i + 1
    /\ UNCHANGED <<now, view>>
    /\ UNCHANGED otherThanMain

\* The loop is over: sort, append the totals, return to main()
ReturnAll ==
    /\ pc = "loop"
    /\ i > Len(CITIES)
    /\ LET sorted == SortByOccupancy(results)
       IN  results' = Append(sorted, Totals(sorted))
    /\ pc' = "returned"
    /\ UNCHANGED <<now, cache, i, data, answers, sleeps, reported, got, limited,
                   lastExec, view>>
    /\ UNCHANGED otherThanMain

\* `if not results:` the error and return; else the metrics, table and charts
MainBranch ==
    /\ pc = "returned"
    /\ view' = IF results = <<>> THEN "failed" ELSE "rendered"
    /\ pc' = "idle"
    /\ UNCHANGED <<now, cache, i, results, data, answers, sleeps, reported, got,
                   limited, lastExec>>
    /\ UNCHANGED otherThanMain

\* The exception left main(): the script run is over, the next one may start
AfterCrash ==
    /\ pc = "crashed"
    /\ pc' = "idle"
    /\ UNCHANGED <<now, cache, i, results, data, answers, sleeps, reported, got,
                   limited, lastExec, view>>
    /\ UNCHANGED otherThanMain

\* Time passes, between script runs or between two cities of one run
Tick ==
    /\ pc \in {"idle", "loop"}
    /\ now < MaxTicks * TickSeconds
    /\ now' = now + TickSeconds
    /\ UNCHANGED <<pc, cache, i, results, data, answers, sleeps, reported, got,
                   limited, lastExec, view>>
    /\ UNCHANGED otherThanMain

Next == StartCycle \/ FetchCity \/ ReturnAll \/ MainBranch \/ AfterCrash \/ Tick

-----------------------------------------------------------------------------

Init == ProcInit /\ RetryInit /\ MainInit

Spec == Init /\ [][Next]_vars

SpecProc == Init /\ [][ProcNext]_vars

SpecRetry == Init /\ [][RetryNext]_vars

-----------------------------------------------------------------------------
(* Properties *)

CityRows == SubSeq(results, 1, Len(results) - 1)
TotalRow == results[Len(results)]
IsTransportFailure(http) == http.kind \in {"ConnectionError", "Timeout"}
IsRateLimit(http) == http.kind = "HTTPError" /\ http.status = 429

\* C1: when the fetch of every configured city yielded no payload in a
\* render cycle, main() takes its "Failed to fetch data" branch and renders
\* no metrics, table or charts.
C1_TotalFailureShown ==
    (pc = "idle" /\ view # "none" /\ \A c \in CityNames : got[c] = None)
        => view = "failed"

\* C2: a transport failure (connection error, timeout) of the HTTP GET is
\* retried with backoff: a further request follows a sleep, at most
\* retries + 1 requests are made, no payload is returned only after all of
\* them failed, and a later successful request yields its parsed payload.
C2_TransportFailureRetried ==
    (answers # <<>> /\ IsTransportFailure(answers[1])) =>
        /\ Len(answers) >= 2
        /\ Len(answers) <= retries + 1
        /\ sleeps = Len(answers) - 1
        /\ (data = None => Len(answers) = retries + 1)
        /\ (answers[Len(answers)].kind = "ok"
                => data = Some(answers[Len(answers)].body))

IsNetworkError(out) == out.kind = "RequestException"

\* C3: with retries = 3, an operation that fails with a network error twice
\* and then succeeds is invoked exactly 3 times with exactly 2 sleeps and its
\* third return value is returned; one that fails with a network error on all
\* 4 invocations has the last error propagated after exactly 3 sleeps and is
\* never invoked a 5th time; a network error propagates only from the 4th.
C3_RetryCounts ==
    /\ Len(calls) <= 4
    /\ (Len(calls) >= 3 /\ IsNetworkError(calls[1]) /\ IsNetworkError(calls[2])
            /\ calls[3].kind = "return")
        => (wpc = "returned" /\ Len(calls) = 3 /\ Len(delays) = 2
            /\ wresult = calls[3])
    /\ (Len(calls) >= 4 /\ \A n \in 1..4 : IsNetworkError(calls[n]))
        => (wpc = "raised" /\ Len(calls) = 4 /\ Len(delays) = 3
            /\ wresult = calls[4])
    /\ (wpc = "raised" /\ IsNetworkError(wresult)) => Len(calls) = 4

C3_Witness ==
    /\ wpc = "returned"
    /\ Len(calls) = 3
    /\ IsNetworkError(calls[1]) /\ IsNetworkError(calls[2])
    /\ Len(delays) = 2
    /\ wresult = Returned(2)

\* C4: a fetch_showtimes call for a city made less than 30 minutes after the
\* body last ran for that city does not run the body (whatever that run
\* returned), so two calls within the window run it at most once; a call
\* made 30 minutes or more after the last run runs the body again and the
\* cache then holds what this run returned.
C4_CacheWindow ==
    [][(pc = "loop" /\ i' = i + 1) =>
         LET c == CITIES[i]
         IN  /\ (lastExec[c] >= 0 /\ now - lastExec[c] < 30 * 60)
                    => (answers' = <<>> /\ lastExec'[c] = lastExec[c]
                        /\ cache'[c] = cache[c])
             /\ (lastExec[c] >= 0 /\ now - lastExec[c] >= 30 * 60)
                    => (answers' # <<>> /\ lastExec'[c] = now
                        /\ cache'[c] = <<[value |-> data', stored |-> now]>>)
      ]_vars

C4_Witness ==
    /\ pc = "loop" /\ i = 3 /\ now = 30 * 60
    /\ lastExec["Hyderabad"] = 30 * 60
    /\ lastExec["Bangalore"] = 15 * 60
    /\ answers = <<>>
    /\ data = None
    /\ got["Hyderabad"] # None

RECURSIVE SumFromEnd(_, _, _)
SumFromEnd(rows, field, n) ==
    IF n = 0 THEN 0 ELSE SumFromEnd(rows, field, n - 1) + rows[n][field]

NumericFields ==
    {"ShowCount", "FastFillingShows", "SoldOutShows", "BookedGross",
     "MaxCapacityGross", "BookedTicketsCount", "TotalTicketsCount"}

\* C5: in the list fetch_all_showtimes returns, every numeric field of the
\* OVERALL_TOTAL row is the sum of that field over the city rows, and its
\* Occupancy is summed booked over summed total tickets times 100 to two
\* decimals ("0.00%" when the summed total is 0).
C5_TotalsAreSums ==
    pc = "returned" =>
        LET booked == SumFromEnd(CityRows, "BookedTicketsCount", Len(CityRows))
            total == SumFromEnd(CityRows, "TotalTicketsCount", Len(CityRows))
        IN  /\ \A f \in NumericFields :
                  TotalRow[f] = SumFromEnd(CityRows, f, Len(CityRows))
            /\ total = 0 => TotalRow.Occupancy = <<"0", ".", "0", "0", "%">>
            /\ total # 0 =>
                  2 * Abs(10000 * booked - OccupancyKey(TotalRow) * total) <= total

\* three city rows whose mean percentage differs from the total's 97.36%
C5_Witness ==
    /\ pc = "returned"
    /\ Len(results) = 4
    /\ TotalRow.Occupancy = <<"9", "7", ".", "3", "6", "%">>
    /\ 3 * OccupancyKey(TotalRow)
          # SumFromEnd([n \in 1..3 |-> [key |-> OccupancyKey(results[n])]], "key", 3)

\* C6: in the list fetch_all_showtimes returns, the city rows are in
\* non-increasing order of parsed Occupancy and the OVERALL_TOTAL row is the
\* single last element, whatever its own occupancy.
C6_SortedTotalLast ==
    pc = "returned" =>
        /\ Len(results) >= 1
        /\ TotalRow.AreaName = "OVERALL_TOTAL"
        /\ \A n \in 1..(Len(results) - 1) : results[n].AreaName \in CityNames
        /\ \A m, n \in 1..(Len(results) - 1) :
              m < n => OccupancyKey(results[m]) >= OccupancyKey(results[n])

\* the configured order reversed by the sort, the total above the last city
C6_Witness ==
    /\ pc = "returned"
    /\ Len(results) = 4
    /\ results[1].AreaName = "Chennai"
    /\ results[2].AreaName = "Bangalore"
    /\ results[3].AreaName = "Hyderabad"
    /\ OccupancyKey(results[1]) > OccupancyKey(results[2])
    /\ OccupancyKey(results[2]) > OccupancyKey(results[3])
    /\ OccupancyKey(TotalRow) > OccupancyKey(results[3])

\* C7: the dict process_showtime_data returns satisfies
\* 0 <= BookedTicketsCount <= TotalTicketsCount.
C7_BookedWithinTotal ==
    ppc = "returned" =>
        /\ 0 <= summary.BookedTicketsCount
        /\ summary.BookedTicketsCount <= summary.TotalTicketsCount

\* C8: process_showtime_data never raises: a MaxSeats, SeatsAvail or
\* CurPrice that is missing, null or not a number counts as 0.
C8_NeverRaises == ppc # "raised"

\* C9: a request answered with HTTP 429 is the only request of its call, no
\* sleep is made, the rate-limit condition is reported and no payload is
\* returned; the loop still goes on to every remaining city, and the result
\* has a row for exactly the cities whose fetch yielded a payload.
C9_RateLimitedCityDropped ==
    /\ (answers # <<>> /\ IsRateLimit(answers[1])) =>
          (Len(answers) = 1 /\ sleeps = 0 /\ "rate_limit" \in reported
           /\ data = None)
    /\ limited # {} => pc # "crashed"
    /\ (pc = "returned" /\ limited # {}) =>
          {results[n].AreaName : n \in 1..(Len(results) - 1)}
              = {c \in CityNames : got[c] # None}

\* C10: entering a showtime adds exactly 1 to ShowCount and nothing else
\* does; closing a showtime adds 1 to FastFillingShows exactly when
\* 70 <= occupancy < 100 and 1 to SoldOutShows exactly when occupancy >= 99.5
\* (occupancy = booked / capacity * 100, or 0 when the capacity is 0), and
\* nothing else changes those counters.
C10_ShowClassification ==
    [][LET enter == ppc = "showtimes" /\ ppc' = "categories"
           close == ppc = "categories" /\ ppc' = "showtimes"
           cap == show.total_max_seats
           booked == show.total_booked_tickets
           fast == cap > 0 /\ 70 * cap <= 100 * booked /\ 100 * booked < 100 * cap
           sold == cap > 0 /\ 1000 * booked >= 995 * cap
       IN  /\ acc'.total_show_count
                 = acc.total_show_count + (IF enter THEN 1 ELSE 0)
           /\ acc'.fast_filling_show_count
                 = acc.fast_filling_show_count + (IF close /\ fast THEN 1 ELSE 0)
           /\ acc'.sold_out_show_count
                 = acc.sold_out_show_count + (IF close /\ sold THEN 1 ELSE 0)
      ]_vars

\* one showtime of 200 seats with 1 left, counted as fast-filling and sold out
C10_Witness ==
    /\ ppc = "showtimes"
    /\ show.total_max_seats = 200
    /\ show.total_booked_tickets = 199
    /\ acc.total_show_count = 1
    /\ acc.fast_filling_show_count = 1
    /\ acc.sold_out_show_count = 1

====
